---- MODULE Spec2Model ----
(***************************************************************************)
(* HoneyRAG launcher (cmd/honeyrag/main.go): the Bubble Tea model that     *)
(* runs seven provisioning steps in sequence.  A step action runs in its   *)
(* own goroutine (a "worker" below) and reports one message; Model.Update  *)
(* handles one message at a time.                                          *)
(***************************************************************************)
EXTENDS Integers, Sequences, FiniteSets, TLC

(* ---------------------------------------------------------------- bounds *)

\* frames of the spinner animation that are told apart
NFrames == 2
\* log-line messages delivered in one run
MaxLogMsgs == 1
\* largest timeoutSeconds tried when waitForHealthy is checked on its own
MaxN == 4

\* lines a log message can carry
Lines == {"l1", "l2"}
\* keys the terminal can deliver
Keys == {"q", "ctrl+c", "x"}

(* ------------------------------------------------------ program constants *)

\* len(steps) of initialModel
NSteps == 7
\* len(pythonVersions) in uvSync
NPythonVersions == 4
\* retries of "ollama list" in pullEmbeddingModel
ListRetries == 3
\* capacity of Step.LogLines kept by Update
LogCap == 3

StepIdx == 0 .. (NSteps - 1)

\* the steps whose action launches a service behind a health gate
LaunchSteps == {2, 4, 5, 6}

\* the timeoutSeconds each launch step passes to waitForHealthy
Timeout(index) ==
    CASE index = 2 -> 30
      [] index = 4 -> 300
      [] index = 5 -> 60
      [] index = 6 -> 30
      [] OTHER -> 0

VARIABLES
    steps,        \* Model.steps: index -> [Status, LogLines]
    currentStep,  \* Model.currentStep
    done,         \* Model.done
    err,          \* Model.err (NoErr is nil)
    quitting,     \* Model.quitting
    frame,        \* Model.spinner: the frame shown
    started,      \* the runtime has called Model.Init
    exited,       \* the runtime has processed tea.Quit
    quitPending,  \* Update has returned tea.Quit, not yet processed
    tickPending,  \* a spinner tick command is scheduled
    workers,      \* step actions (tea.Cmd goroutines) in flight
    msgs,         \* messages returned by step actions, not yet handled
    dispatched,   \* history: the indices runStep was dispatched with
    handled,      \* history: the completion messages Update handled
    spawned,      \* history: launch steps whose process was started
    logFiles,     \* history: launch steps whose log file was created
    logCount,     \* log-line messages handled so far
    delivered,    \* history: the lines delivered for each step, in order
    did,          \* history: the calls made by the step action last dispatched
    servicesUp,   \* environment: all four services answer every probe with 200
    processes,    \* Model.processes
    killed,       \* history: spawned processes the program killed or waited for
    wN,           \* waitForHealthy on its own: timeoutSeconds
    wHealth,      \* ... what the i-th call of isHealthy answers
    wI,           \* ... the loop variable i
    wProbes,      \* ... calls of isHealthy made
    wRet,         \* ... "running", "true" or "false"
    hResp,        \* isHealthy on its own: what client.Get(url) comes back with
    hRet,         \* ... "running", "true" or "false"
    outPipe,      \* the vLLM drain on its own: lines in the stdout pipe
    errPipe,      \* ... lines in the stderr pipe
    vllmLog,      \* ... lines written to logs/vllm.log
    reader,       \* ... the reader io.MultiReader is on
    childUp,      \* ... the vLLM process is running
    wrote,        \* ... lines the vLLM process has written
    snap          \* a Model value an earlier Update returned, kept by a reader

runner == <<steps, currentStep, done, err, quitting, frame, started, exited,
            quitPending, tickPending,
            workers, msgs, dispatched, handled, spawned, logFiles, logCount,
            delivered, did, servicesUp, processes, killed>>
waiter == <<wN, wHealth, wI, wProbes, wRet>>
prober == <<hResp, hRet>>
drainer == <<outPipe, errPipe, vllmLog, reader, childUp, wrote>>
\* what the runner's own steps leave alone
alone == <<waiter, prober, drainer, snap>>
vars == <<runner, waiter, prober, drainer, snap>>

NoErr == [text |-> "nil", osErr |-> FALSE, output |-> FALSE, tail |-> FALSE]

\* fmt.Errorf(...): the fixed text, and whether the message carries the OS
\* error (%v of err), the command's output, or the tail of the log file
Errorf(text, osErr, output, tail) ==
    [text |-> text, osErr |-> osErr, output |-> output, tail |-> tail]

stepDoneMsg(index) == [type |-> "stepDone", index |-> index, err |-> NoErr]
stepErrorMsg(index, e) == [type |-> "stepError", index |-> index, err |-> e]

\* the []Step literal of initialModel: every step pending, no log lines
initialSteps == [i \in StepIdx |-> [Status |-> "pending", LogLines |-> <<>>]]

\* the first statement of the action runStep(index) selects
FirstPc(index) ==
    CASE index = 0 -> "sync"
      [] index = 1 -> "lookpath"
      [] index = 3 -> "list"
      [] index \in LaunchSteps -> "probe"
      [] OTHER -> "fallthrough"

\* the record of calls of a step action that has made none yet: probes
\* counts the isHealthy calls the action makes itself and first is the
\* answer of its first check (isHealthy or exec.LookPath); waited tells
\* that it has called waitForHealthy; tries counts runs of the retried
\* command (uv sync, ollama list), runs those of the command run once
\* (install script, ollama pull, cmd.Start) and last is the outcome of the
\* latest of either; created is the outcome of os.Create; vers lists the
\* interpreters uv sync was run with
NoCalls(index) ==
    [index |-> index, probes |-> 0, first |-> "none", waited |-> FALSE,
     tries |-> 0, runs |-> 0, last |-> "none", created |-> "none",
     vers |-> <<>>]

\* the closure runStep(index) returns, once the runtime runs it
runStep(index) == [index |-> index, pc |-> FirstPc(index), i |-> 0, n |-> 0]

\* what no step action and no handler but the log-line one writes
fixedVars == <<servicesUp, processes, killed, delivered>>

\* no Model value has been kept
NoSnap == [taken |-> FALSE, m |-> [steps |-> initialSteps, currentStep |-> 0,
                                   done |-> FALSE, err |-> NoErr,
                                   quitting |-> FALSE, frame |-> 0]]

\* no call of isHealthy is being followed on its own
ProbeIdle ==
    /\ hResp = [err |-> "none", status |-> 200]
    /\ hRet = "false"

\* no vLLM process has been started
DrainIdle ==
    /\ outPipe = <<>>
    /\ errPipe = <<>>
    /\ vllmLog = <<>>
    /\ reader = "none"
    /\ childUp = FALSE
    /\ wrote = 0

Init ==
    /\ steps = initialSteps
    /\ currentStep = 0
    /\ done = FALSE
    /\ err = NoErr
    /\ quitting = FALSE
    /\ frame = 0
    /\ started = FALSE
    /\ exited = FALSE
    /\ quitPending = FALSE
    /\ tickPending = FALSE
    /\ workers = <<>>
    /\ msgs = <<>>
    /\ dispatched = <<>>
    /\ handled = <<>>
    /\ spawned = {}
    /\ logFiles = {}
    /\ logCount = 0
    /\ delivered = [i \in StepIdx |-> <<>>]
    /\ did = NoCalls(-1)
    /\ servicesUp \in BOOLEAN
    /\ processes = <<>>
    /\ killed = {}
    /\ wN = 0
    /\ wHealth = <<>>
    /\ wI = 0
    /\ wProbes = 0
    /\ wRet = "false"
    /\ ProbeIdle
    /\ DrainIdle
    /\ snap = NoSnap

\* Model.Init: tea.Batch(m.spinner.Tick, m.runStep(0))
TeaInit ==
    /\ ~started
    /\ started' = TRUE
    /\ tickPending' = TRUE
    /\ workers' = Append(workers, runStep(0))
    /\ dispatched' = Append(dispatched, 0)
    /\ did' = NoCalls(0)
    /\ UNCHANGED <<steps, currentStep, done, err, quitting, frame, exited,
                   quitPending, msgs, handled, spawned, logFiles, logCount>>
    /\ UNCHANGED fixedVars
    /\ UNCHANGED alone

(* ------------------------------------------------------- the step actions *)

\* seq without its k-th element
RemoveAt(seq, k) ==
    [j \in 1 .. (Len(seq) - 1) |-> IF j < k THEN seq[j] ELSE seq[j + 1]]

\* fault variant of Return: the action reports and keeps running, so it
\* reports again
ReturnAndGoOn(k, msg) ==
    /\ workers' = workers
    /\ msgs' = Append(msgs, msg)

\* fault variant of Return: the action ends without a message reaching
\* Update
ReturnLost(k, msg) ==
    /\ workers' = RemoveAt(workers, k)
    /\ msgs' = msgs

\* worker k returns msg: the runtime queues the message for Update
Return(k, msg) ==
    /\ workers' = RemoveAt(workers, k)
    /\ msgs' = Append(msgs, msg)

\* worker k goes on with the record w
Goto(k, w) ==
    /\ workers' = [workers EXCEPT ![k] = w]
    /\ msgs' = msgs

alive == started /\ ~exited

modelVars == <<steps, currentStep, done, err, quitting, frame, started, exited,
              quitPending, tickPending>>

\* the answers isHealthy can give
Answers == IF servicesUp THEN {TRUE} ELSE BOOLEAN

Outcome(ok) == IF ok THEN "ok" ELSE "fail"
Answer(yes) == IF yes THEN "yes" ELSE "no"
histVars == <<dispatched, handled, logCount>>

\* the error of a launch step whose cmd.Start() failed
startErr(index) ==
    Errorf(CASE index = 2 -> "failed to start Ollama"
             [] index = 4 -> "failed to start vLLM"
             [] index = 5 -> "failed to start LightRAG"
             [] OTHER -> "failed to start Agent",
           TRUE, FALSE, FALSE)

\* the error of a launch step whose waitForHealthy returned false:
\* startOllama reports no log tail, the other three call readLastLines
timeoutErr(index) ==
    CASE index = 2 -> Errorf("Ollama failed to start (timeout)", FALSE, FALSE, FALSE)
      [] index = 4 -> Errorf("vLLM timeout. Last logs", FALSE, FALSE, TRUE)
      [] index = 5 -> Errorf("LightRAG timeout. Last logs", FALSE, FALSE, TRUE)
      [] OTHER -> Errorf("Agent timeout. Last logs", FALSE, FALSE, TRUE)

\* the interpreters uvSync tries, "" standing for uv sync without --python
pythonVersions == <<"3.12", "3.13", "3.11", "">>

\* fault variant of uvSync: the first failure is reported, no other
\* interpreter is tried
uvSyncGivesUp ==
    \E k \in 1 .. Len(workers), ok \in BOOLEAN :
        LET w == workers[k] IN
        /\ alive
        /\ w.pc = "sync"
        /\ w.i < NPythonVersions
        /\ IF ok
           THEN Return(k, stepDoneMsg(w.index))
           ELSE Return(k, stepErrorMsg(w.index,
                              Errorf("uv sync failed", TRUE, TRUE, FALSE)))
        /\ did' = [did EXCEPT !.tries = @ + 1, !.last = Outcome(ok),
                              !.vers = Append(@, pythonVersions[w.i + 1])]
        /\ UNCHANGED <<modelVars, histVars, spawned, logFiles>>
        /\ UNCHANGED fixedVars
        /\ UNCHANGED alone

\* uvSync: one pass of the loop over pythonVersions, the command succeeding
\* (ok) or not; after the last version failed the error is returned
uvSync ==
    \E k \in 1 .. Len(workers), ok \in BOOLEAN :
        LET w == workers[k] IN
        /\ alive
        /\ w.pc = "sync"
        /\ w.i < NPythonVersions
        /\ IF ok
           THEN Return(k, stepDoneMsg(w.index))
           ELSE IF w.i + 1 < NPythonVersions
                THEN Goto(k, [w EXCEPT !.i = w.i + 1])
                ELSE Return(k, stepErrorMsg(w.index,
                                   Errorf("uv sync failed", TRUE, TRUE, FALSE)))
        /\ did' = [did EXCEPT !.tries = @ + 1, !.last = Outcome(ok),
                              !.vers = Append(@, pythonVersions[w.i + 1])]
        /\ UNCHANGED <<modelVars, histVars, spawned, logFiles>>
        /\ UNCHANGED fixedVars
        /\ UNCHANGED alone

\* fault variant of checkInstallOllama: the install script is run whether
\* the binary is found or not
checkInstallOllamaAlways ==
    \E k \in 1 .. Len(workers), found \in BOOLEAN :
        LET w == workers[k] IN
        /\ alive
        /\ w.pc = "lookpath"
        /\ Goto(k, [w EXCEPT !.pc = "install"])
        /\ did' = [did EXCEPT !.first = Answer(found)]
        /\ UNCHANGED <<modelVars, histVars, spawned, logFiles>>
        /\ UNCHANGED fixedVars
        /\ UNCHANGED alone

\* checkInstallOllama: exec.LookPath finds the binary or not
checkInstallOllama ==
    \E k \in 1 .. Len(workers), found \in BOOLEAN :
        LET w == workers[k] IN
        /\ alive
        /\ w.pc = "lookpath"
        /\ IF found
           THEN Return(k, stepDoneMsg(w.index))
           ELSE Goto(k, [w EXCEPT !.pc = "install"])
        /\ did' = [did EXCEPT !.first = Answer(found)]
        /\ UNCHANGED <<modelVars, histVars, spawned, logFiles>>
        /\ UNCHANGED fixedVars
        /\ UNCHANGED alone

\* checkInstallOllama: the install script exits with or without an error
installOllama ==
    \E k \in 1 .. Len(workers), ok \in BOOLEAN :
        LET w == workers[k] IN
        /\ alive
        /\ w.pc = "install"
        /\ IF ok
           THEN Return(k, stepDoneMsg(w.index))
           ELSE Return(k, stepErrorMsg(w.index,
                              Errorf("failed to install Ollama", FALSE, TRUE, FALSE)))
        /\ did' = [did EXCEPT !.runs = @ + 1, !.last = Outcome(ok)]
        /\ UNCHANGED <<modelVars, histVars, spawned, logFiles>>
        /\ UNCHANGED fixedVars
        /\ UNCHANGED alone

\* pullEmbeddingModel: one pass of the loop running "ollama list"; hit is
\* err == nil && strings.Contains(output, "nomic-embed-text")
listModels ==
    \E k \in 1 .. Len(workers), hit \in BOOLEAN :
        LET w == workers[k] IN
        /\ alive
        /\ w.pc = "list"
        /\ w.i < ListRetries
        /\ IF hit
           THEN Return(k, stepDoneMsg(w.index))
           ELSE IF w.i + 1 < ListRetries
                THEN Goto(k, [w EXCEPT !.i = w.i + 1])
                ELSE Goto(k, [w EXCEPT !.pc = "pull", !.i = w.i + 1])
        /\ did' = [did EXCEPT !.tries = @ + 1, !.last = Outcome(hit)]
        /\ UNCHANGED <<modelVars, histVars, spawned, logFiles>>
        /\ UNCHANGED fixedVars
        /\ UNCHANGED alone

\* fault variant of pullModel: a failed pull is tried again
pullModelRetries ==
    \E k \in 1 .. Len(workers), ok \in BOOLEAN :
        LET w == workers[k] IN
        /\ alive
        /\ w.pc = "pull"
        /\ IF ok
           THEN Return(k, stepDoneMsg(w.index))
           ELSE IF did.runs < 1
                THEN Goto(k, w)
                ELSE Return(k, stepErrorMsg(w.index,
                                   Errorf("failed to pull", TRUE, TRUE, FALSE)))
        /\ did' = [did EXCEPT !.runs = @ + 1, !.last = Outcome(ok)]
        /\ UNCHANGED <<modelVars, histVars, spawned, logFiles>>
        /\ UNCHANGED fixedVars
        /\ UNCHANGED alone

\* pullEmbeddingModel: "ollama pull nomic-embed-text", run once
pullModel ==
    \E k \in 1 .. Len(workers), ok \in BOOLEAN :
        LET w == workers[k] IN
        /\ alive
        /\ w.pc = "pull"
        /\ IF ok
           THEN Return(k, stepDoneMsg(w.index))
           ELSE Return(k, stepErrorMsg(w.index,
                              Errorf("failed to pull", TRUE, TRUE, FALSE)))
        /\ did' = [did EXCEPT !.runs = @ + 1, !.last = Outcome(ok)]
        /\ UNCHANGED <<modelVars, histVars, spawned, logFiles>>
        /\ UNCHANGED fixedVars
        /\ UNCHANGED alone

\* fault variant of probeHealthy: the answer of the first probe is ignored
\* and the service is launched anyway
probeHealthyAlwaysLaunches ==
    \E k \in 1 .. Len(workers), healthy \in Answers :
        LET w == workers[k] IN
        /\ alive
        /\ w.pc = "probe"
        /\ Goto(k, [w EXCEPT !.pc = "create"])
        /\ did' = [did EXCEPT !.probes = @ + 1, !.first = Answer(healthy)]
        /\ UNCHANGED <<modelVars, histVars, spawned, logFiles>>
        /\ UNCHANGED fixedVars
        /\ UNCHANGED alone

\* start<Service>: the first isHealthy(healthURL) of a launch step
probeHealthy ==
    \E k \in 1 .. Len(workers), healthy \in Answers :
        LET w == workers[k] IN
        /\ alive
        /\ w.pc = "probe"
        /\ IF healthy
           THEN Return(k, stepDoneMsg(w.index))
           ELSE Goto(k, [w EXCEPT !.pc = "create"])
        /\ did' = [did EXCEPT !.probes = @ + 1, !.first = Answer(healthy)]
        /\ UNCHANGED <<modelVars, histVars, spawned, logFiles>>
        /\ UNCHANGED fixedVars
        /\ UNCHANGED alone

\* fault variant of createLog: the error of os.Create is not checked and the
\* process is started all the same
createLogUnchecked ==
    \E k \in 1 .. Len(workers), ok \in BOOLEAN :
        LET w == workers[k] IN
        /\ alive
        /\ w.pc = "create"
        /\ Goto(k, [w EXCEPT !.pc = "start"])
        /\ logFiles' = IF ok THEN logFiles \cup {w.index} ELSE logFiles
        /\ did' = [did EXCEPT !.created = Outcome(ok)]
        /\ UNCHANGED <<modelVars, histVars, spawned>>
        /\ UNCHANGED fixedVars
        /\ UNCHANGED alone

\* start<Service>: os.Create of the service's log file
createLog ==
    \E k \in 1 .. Len(workers), ok \in BOOLEAN :
        LET w == workers[k] IN
        /\ alive
        /\ w.pc = "create"
        /\ IF ok
           THEN /\ Goto(k, [w EXCEPT !.pc = "start"])
                /\ logFiles' = logFiles \cup {w.index}
           ELSE /\ Return(k, stepErrorMsg(w.index,
                                Errorf("failed to create log file", TRUE, FALSE, FALSE)))
                /\ logFiles' = logFiles
        /\ did' = [did EXCEPT !.created = Outcome(ok)]
        /\ UNCHANGED <<modelVars, histVars, spawned>>
        /\ UNCHANGED fixedVars
        /\ UNCHANGED alone

\* fault variant of startProcess: the error of cmd.Start() is not checked
\* and the step polls for health all the same
startProcessUnchecked ==
    \E k \in 1 .. Len(workers), ok \in BOOLEAN :
        LET w == workers[k] IN
        /\ alive
        /\ w.pc = "start"
        /\ Goto(k, [w EXCEPT !.pc = "wait", !.i = 0, !.n = Timeout(w.index)])
        /\ spawned' = IF ok THEN spawned \cup {w.index} ELSE spawned
        /\ did' = [did EXCEPT !.runs = @ + 1, !.last = Outcome(ok)]
        /\ UNCHANGED <<modelVars, histVars, logFiles>>
        /\ UNCHANGED fixedVars
        /\ UNCHANGED alone

\* start<Service>: cmd.Start(); on success the step goes on to
\* waitForHealthy(healthURL, Timeout(index))
startProcess ==
    \E k \in 1 .. Len(workers), ok \in BOOLEAN :
        LET w == workers[k] IN
        /\ alive
        /\ w.pc = "start"
        /\ IF ok
           THEN /\ Goto(k, [w EXCEPT !.pc = "wait", !.i = 0, !.n = Timeout(w.index)])
                /\ spawned' = spawned \cup {w.index}
           ELSE /\ Return(k, stepErrorMsg(w.index, startErr(w.index)))
                /\ spawned' = spawned
        /\ did' = [did EXCEPT !.runs = @ + 1, !.last = Outcome(ok)]
        /\ UNCHANGED <<modelVars, histVars, logFiles>>
        /\ UNCHANGED fixedVars
        /\ UNCHANGED alone

\* fault variant of waitForHealthyIter: the loop condition is i <= n
waitForHealthyIterLeq(i, n, healthy) ==
    IF i <= n
    THEN IF healthy
         THEN [ret |-> "true", i |-> i, probed |-> TRUE]
         ELSE [ret |-> "loop", i |-> i + 1, probed |-> TRUE]
    ELSE [ret |-> "false", i |-> i, probed |-> FALSE]

\* waitForHealthy: one evaluation of the loop condition and, when it holds,
\* of the loop body with what isHealthy answers.  ret is "true" or "false"
\* when the function returns and "loop" when it goes round again; probed
\* tells whether isHealthy was called.
waitForHealthyIter(i, n, healthy) ==
    IF i < n
    THEN IF healthy
         THEN [ret |-> "true", i |-> i, probed |-> TRUE]
         ELSE [ret |-> "loop", i |-> i + 1, probed |-> TRUE]
    ELSE [ret |-> "false", i |-> i, probed |-> FALSE]

\* fault variant of waitForHealthy: the step action marks its own step done
\* in Model.steps before it returns
waitForHealthyMarksDone ==
    \E k \in 1 .. Len(workers), healthy \in Answers :
        LET w == workers[k]
            r == waitForHealthyIter(w.i, w.n, healthy)
        IN
        /\ alive
        /\ w.pc = "wait"
        /\ CASE r.ret = "true" -> Return(k, stepDoneMsg(w.index))
             [] r.ret = "false" -> Return(k, stepErrorMsg(w.index, timeoutErr(w.index)))
             [] OTHER -> Goto(k, [w EXCEPT !.i = r.i])
        /\ steps' = IF r.ret = "true"
                    THEN [steps EXCEPT ![w.index].Status = "done"]
                    ELSE steps
        /\ did' = [did EXCEPT !.waited = TRUE]
        /\ UNCHANGED <<currentStep, done, err, quitting, frame, started, exited,
                       quitPending, tickPending>>
        /\ UNCHANGED <<histVars, spawned, logFiles>>
        /\ UNCHANGED fixedVars
        /\ UNCHANGED alone

\* start<Service>: the call of waitForHealthy and the return that follows it
waitForHealthy ==
    \E k \in 1 .. Len(workers), healthy \in Answers :
        LET w == workers[k]
            r == waitForHealthyIter(w.i, w.n, healthy)
        IN
        /\ alive
        /\ w.pc = "wait"
        /\ CASE r.ret = "true" -> Return(k, stepDoneMsg(w.index))
             [] r.ret = "false" -> Return(k, stepErrorMsg(w.index, timeoutErr(w.index)))
             [] OTHER -> Goto(k, [w EXCEPT !.i = r.i])
        /\ did' = [did EXCEPT !.waited = TRUE]
        /\ UNCHANGED <<modelVars, histVars, spawned, logFiles>>
        /\ UNCHANGED fixedVars
        /\ UNCHANGED alone

(* ------------------------------------------------------------ Model.Update *)

\* the tea.Cmd values Update returns
NilCmd == [kind |-> "nil", index |-> -1]
QuitCmd == [kind |-> "tea.Quit", index |-> -1]
TickCmd == [kind |-> "spinner.Tick", index |-> -1]
RunStepCmd(index) == [kind |-> "runStep", index |-> index]

\* the fields of Model that Update reads and writes
TheModel ==
    [steps |-> steps, currentStep |-> currentStep, done |-> done, err |-> err,
     quitting |-> quitting, frame |-> frame]

\* fault variant of updateKey: a quit key is ignored while the run is going
updateKeyWhenHalted(m, key) ==
    IF key \in {"ctrl+c", "q"} /\ (m.done \/ m.err # NoErr)
    THEN [m |-> [m EXCEPT !.quitting = TRUE], cmd |-> QuitCmd]
    ELSE [m |-> m, cmd |-> NilCmd]

\* case tea.KeyMsg: "ctrl+c" and "q" quit, any other key falls through to
\* the final return m, nil
updateKey(m, key) ==
    IF key \in {"ctrl+c", "q"}
    THEN [m |-> [m EXCEPT !.quitting = TRUE], cmd |-> QuitCmd]
    ELSE [m |-> m, cmd |-> NilCmd]

\* fault variant of updateTick: the spinner stops once the run is over
updateTickUntilOver(m) ==
    IF m.done \/ m.err # NoErr
    THEN [m |-> m, cmd |-> NilCmd]
    ELSE [m |-> [m EXCEPT !.frame = (m.frame + 1) % NFrames], cmd |-> TickCmd]

\* case spinner.TickMsg: the spinner advances and schedules its next tick
updateTick(m) ==
    [m |-> [m EXCEPT !.frame = (m.frame + 1) % NFrames], cmd |-> TickCmd]

\* fault variant of updateStepDone: the finished step is not marked done
updateStepDoneNotMarked(m, msg) ==
    LET m1 == [m EXCEPT !.currentStep = m.currentStep + 1]
    IN  IF m1.currentStep >= NSteps
        THEN [m |-> [m1 EXCEPT !.done = TRUE], cmd |-> NilCmd]
        ELSE [m |-> [m1 EXCEPT !.steps[m1.currentStep].Status = "running"],
              cmd |-> RunStepCmd(m1.currentStep)]

\* fault variant of updateStepDone: the finished step is marked done only
\* when a next step is started
updateStepDoneLastUnmarked(m, msg) ==
    LET m1 == [m EXCEPT !.currentStep = m.currentStep + 1]
    IN  IF m1.currentStep >= NSteps
        THEN [m |-> [m1 EXCEPT !.done = TRUE], cmd |-> NilCmd]
        ELSE [m |-> [m1 EXCEPT !.steps[msg.index].Status = "done",
                               !.steps[m1.currentStep].Status = "running"],
              cmd |-> RunStepCmd(m1.currentStep)]

\* fault variant of updateStepDone: currentStep is not advanced
updateStepDoneNoAdvance(m, msg) ==
    LET m1 == [m EXCEPT !.steps[msg.index].Status = "done"]
    IN  IF m1.currentStep >= NSteps
        THEN [m |-> [m1 EXCEPT !.done = TRUE], cmd |-> NilCmd]
        ELSE [m |-> [m1 EXCEPT !.steps[m1.currentStep].Status = "running"],
              cmd |-> RunStepCmd(m1.currentStep)]

\* fault variant of updateStepDone: the next step is marked running but its
\* action is not returned as the command
updateStepDoneNoCmd(m, msg) ==
    LET m1 == [m EXCEPT !.steps[msg.index].Status = "done",
                        !.currentStep = m.currentStep + 1]
    IN  IF m1.currentStep >= NSteps
        THEN [m |-> [m1 EXCEPT !.done = TRUE], cmd |-> NilCmd]
        ELSE [m |-> [m1 EXCEPT !.steps[m1.currentStep].Status = "running"],
              cmd |-> NilCmd]

\* case stepDoneMsg
updateStepDone(m, msg) ==
    LET m1 == [m EXCEPT !.steps[msg.index].Status = "done",
                        !.currentStep = m.currentStep + 1]
    IN  IF m1.currentStep >= NSteps
        THEN [m |-> [m1 EXCEPT !.done = TRUE], cmd |-> NilCmd]
        ELSE [m |-> [m1 EXCEPT !.steps[m1.currentStep].Status = "running"],
              cmd |-> RunStepCmd(m1.currentStep)]

\* fault variant of updateStepError: the run goes on with the next step
updateStepErrorGoesOn(m, msg) ==
    LET m1 == [m EXCEPT !.steps[msg.index].Status = "error", !.err = msg.err,
                        !.currentStep = m.currentStep + 1]
    IN  IF m1.currentStep >= NSteps
        THEN [m |-> m1, cmd |-> NilCmd]
        ELSE [m |-> [m1 EXCEPT !.steps[m1.currentStep].Status = "running"],
              cmd |-> RunStepCmd(m1.currentStep)]

\* fault variant of updateStepError: the cause is not stored
updateStepErrorNoCause(m, msg) ==
    [m |-> [m EXCEPT !.steps[msg.index].Status = "error"], cmd |-> NilCmd]

\* fault variant of updateStepError: the program quits on a failure
updateStepErrorQuits(m, msg) ==
    [m |-> [m EXCEPT !.steps[msg.index].Status = "error", !.err = msg.err],
     cmd |-> QuitCmd]

\* case stepErrorMsg
updateStepError(m, msg) ==
    [m |-> [m EXCEPT !.steps[msg.index].Status = "error", !.err = msg.err],
     cmd |-> NilCmd]

\* fault variant of updateLog: the first LogCap lines are kept
updateLogKeepsFirst(m, index, line) ==
    LET all == Append(m.steps[index].LogLines, line)
        kept == IF Len(all) > LogCap THEN SubSeq(all, 1, LogCap) ELSE all
    IN  [m |-> [m EXCEPT !.steps[index].LogLines = kept], cmd |-> NilCmd]

\* case logUpdateMsg: append, then keep the last LogCap lines
updateLog(m, index, line) ==
    LET all == Append(m.steps[index].LogLines, line)
        kept == IF Len(all) > LogCap
                THEN SubSeq(all, Len(all) - LogCap + 1, Len(all))
                ELSE all
    IN  [m |-> [m EXCEPT !.steps[index].LogLines = kept], cmd |-> NilCmd]

\* the runtime takes the model Update returned and runs the command
Apply(r) ==
    /\ steps' = r.m.steps
    /\ currentStep' = r.m.currentStep
    /\ done' = r.m.done
    /\ err' = r.m.err
    /\ quitting' = r.m.quitting
    /\ frame' = r.m.frame
    /\ quitPending' = (quitPending \/ r.cmd.kind = "tea.Quit")
    /\ IF r.cmd.kind = "runStep"
       THEN /\ workers' = Append(workers, runStep(r.cmd.index))
            /\ dispatched' = Append(dispatched, r.cmd.index)
            /\ did' = NoCalls(r.cmd.index)
       ELSE UNCHANGED <<workers, dispatched, did>>

\* a key press reaches Update
KeyMsg ==
    \E key \in Keys :
        /\ alive
        /\ Apply(updateKey(TheModel, key))
        /\ UNCHANGED <<started, exited, tickPending, msgs, handled, spawned,
                       logFiles, logCount>>
        /\ UNCHANGED fixedVars
        /\ UNCHANGED alone

\* the scheduled spinner tick reaches Update
TickMsg ==
    /\ alive
    /\ tickPending
    /\ LET r == updateTick(TheModel) IN
        /\ Apply(r)
        /\ tickPending' = (r.cmd = TickCmd)
    /\ UNCHANGED <<started, exited, msgs, handled, spawned, logFiles, logCount>>
    /\ UNCHANGED fixedVars
    /\ UNCHANGED alone

\* the message a step action returned reaches Update
StepDoneMsg ==
    /\ alive
    /\ msgs # <<>>
    /\ Head(msgs).type = "stepDone"
    /\ Apply(updateStepDone(TheModel, Head(msgs)))
    /\ msgs' = Tail(msgs)
    /\ handled' = Append(handled, [index |-> Head(msgs).index,
                                   cur |-> currentStep, kind |-> "done",
                                   err |-> Head(msgs).err])
    /\ UNCHANGED <<started, exited, tickPending, spawned, logFiles, logCount>>
    /\ UNCHANGED fixedVars
    /\ UNCHANGED alone

StepErrorMsg ==
    /\ alive
    /\ msgs # <<>>
    /\ Head(msgs).type = "stepError"
    /\ Apply(updateStepError(TheModel, Head(msgs)))
    /\ msgs' = Tail(msgs)
    /\ handled' = Append(handled, [index |-> Head(msgs).index,
                                   cur |-> currentStep, kind |-> "error",
                                   err |-> Head(msgs).err])
    /\ UNCHANGED <<started, exited, tickPending, spawned, logFiles, logCount>>
    /\ UNCHANGED fixedVars
    /\ UNCHANGED alone

\* a log line for some step reaches Update, while fewer than bound have
LogUpdate(bound) ==
    \E index \in StepIdx, line \in Lines :
        /\ alive
        /\ logCount < bound
        /\ Apply(updateLog(TheModel, index, line))
        /\ logCount' = logCount + 1
        /\ delivered' = [delivered EXCEPT ![index] = Append(@, line)]
        /\ UNCHANGED <<started, exited, tickPending, msgs, handled, spawned,
                       logFiles, servicesUp, processes, killed>>
        /\ UNCHANGED alone

LogUpdateMsg == LogUpdate(MaxLogMsgs)

\* fault variant of TeaQuit: the spawned services are killed on the way out
TeaQuitKills ==
    /\ alive
    /\ quitPending
    /\ exited' = TRUE
    /\ killed' = spawned
    /\ UNCHANGED <<steps, currentStep, done, err, quitting, frame, started,
                   quitPending, tickPending, workers, msgs, dispatched, handled,
                   spawned, logFiles, logCount, delivered, did, servicesUp,
                   processes>>
    /\ UNCHANGED alone

\* the runtime processes the tea.Quit that Update returned: Run returns and
\* the process ends
TeaQuit ==
    /\ alive
    /\ quitPending
    /\ exited' = TRUE
    /\ killed' = killed
    /\ UNCHANGED <<steps, currentStep, done, err, quitting, frame, started,
                   quitPending, tickPending, workers, msgs, dispatched, handled,
                   spawned, logFiles, logCount, delivered, did, servicesUp,
                   processes>>
    /\ UNCHANGED alone

Next ==
    \/ TeaInit
    \/ uvSync
    \/ checkInstallOllama
    \/ installOllama
    \/ listModels
    \/ pullModel
    \/ probeHealthy
    \/ createLog
    \/ startProcess
    \/ waitForHealthy
    \/ KeyMsg
    \/ TickMsg
    \/ StepDoneMsg
    \/ StepErrorMsg
    \/ LogUpdateMsg
    \/ TeaQuit

Spec == Init /\ [][Next]_vars

(* ------------------------------------------ the log buffer on its own *)

\* log-line messages delivered when the buffer is checked on its own
MaxLogLines == 4

LogUpdateDeep == LogUpdate(MaxLogLines)

NextLog ==
    \/ TeaInit
    \/ LogUpdateDeep

SpecLog == Init /\ [][NextLog]_vars

(* -------------------------------------------------------------- Model.View *)

\* the frames of spinner.Dot, the spinner initialModel selects (eight
\* braille patterns, named here in their order)
SpinnerFrames == <<"dot1", "dot2", "dot3", "dot4", "dot5", "dot6", "dot7", "dot8">>

\* spinner.View(): the frame the spinner is on, in the spinner's style
spinnerView(f) == [glyph |-> SpinnerFrames[(f % Len(SpinnerFrames)) + 1], style |-> "gold"]

\* fault variant of Icon: a done step is drawn with the open circle too
IconSameCircle(status, f) ==
    CASE status = "pending" -> [glyph |-> "open circle", style |-> "dim"]
      [] status = "running" -> spinnerView(f)
      [] status = "done" -> [glyph |-> "open circle", style |-> "success"]
      [] status = "error" -> [glyph |-> "ballot x", style |-> "error"]
      [] OTHER -> [glyph |-> "", style |-> ""]

\* the switch on step.Status in View: the icon of a step, a glyph (U+25CB,
\* the spinner frame, U+25CF, U+2717) rendered in a style
Icon(status, f) ==
    CASE status = "pending" -> [glyph |-> "open circle", style |-> "dim"]
      [] status = "running" -> spinnerView(f)
      [] status = "done" -> [glyph |-> "filled circle", style |-> "success"]
      [] status = "error" -> [glyph |-> "ballot x", style |-> "error"]
      [] OTHER -> [glyph |-> "", style |-> ""]

\* the icons of the step lines View writes, top to bottom
View(m) == [i \in StepIdx |-> Icon(m.steps[i].Status, m.frame)]

\* the status a reader of the screen takes an icon's glyph for
Decode(icon) ==
    CASE icon.glyph = "open circle" -> "pending"
      [] icon.glyph = "filled circle" -> "done"
      [] icon.glyph = "ballot x" -> "error"
      [] \E k \in 1 .. Len(SpinnerFrames) : icon.glyph = SpinnerFrames[k] -> "running"
      [] OTHER -> "unknown"

(* ------------------------------------------- the run as the code runs it *)

\* the steps of the step actions and the delivery of their messages
Progress ==
    \/ TeaInit
    \/ uvSync
    \/ checkInstallOllama
    \/ installOllama
    \/ listModels
    \/ pullModel
    \/ probeHealthy
    \/ createLog
    \/ startProcess
    \/ waitForHealthy
    \/ StepDoneMsg
    \/ StepErrorMsg

\* the program without log-line messages: no code of the repository sends a
\* logUpdateMsg
NextRun ==
    \/ Progress
    \/ KeyMsg
    \/ TickMsg
    \/ TeaQuit

\* every external command and every probe returns, goroutines are scheduled
\* and the runtime delivers the messages it was given
SpecFair == Init /\ [][NextRun]_vars /\ WF_vars(Progress)

(* ------------------------------------------------- a Model value kept *)

\* the runtime hands the Model value it holds to a reader (View's receiver
\* is such a copy), and the reader keeps it
TakeSnapshot ==
    /\ alive
    /\ ~snap.taken
    /\ snap' = [taken |-> TRUE, m |-> TheModel]
    /\ UNCHANGED <<runner, waiter, prober, drainer>>

\* what a kept Model value shows now: its scalar fields were copied, its
\* steps field is a slice header on the array Update writes in place
SeenThrough(s) == [s.m EXCEPT !.steps = steps]

NextSnap ==
    \/ NextRun
    \/ TakeSnapshot

SpecSnap == Init /\ [][NextSnap]_vars

(* ------------------------------------------- waitForHealthy on its own *)

\* a call waitForHealthy(url, wN) against a service whose k-th probe
\* answers wHealth[k]
InitWait ==
    /\ steps = initialSteps
    /\ currentStep = 0
    /\ done = FALSE
    /\ err = NoErr
    /\ quitting = FALSE
    /\ frame = 0
    /\ started = FALSE
    /\ exited = FALSE
    /\ quitPending = FALSE
    /\ tickPending = FALSE
    /\ workers = <<>>
    /\ msgs = <<>>
    /\ dispatched = <<>>
    /\ handled = <<>>
    /\ spawned = {}
    /\ logFiles = {}
    /\ logCount = 0
    /\ delivered = [i \in StepIdx |-> <<>>]
    /\ did = NoCalls(-1)
    /\ servicesUp \in BOOLEAN
    /\ processes = <<>>
    /\ killed = {}
    /\ wN \in 0 .. MaxN
    /\ wHealth \in [1 .. MaxN -> BOOLEAN]
    /\ wI = 0
    /\ wProbes = 0
    /\ wRet = "running"
    /\ ProbeIdle
    /\ DrainIdle
    /\ snap = NoSnap

\* what the next call of isHealthy answers
NextAnswer == IF wProbes + 1 \in DOMAIN wHealth THEN wHealth[wProbes + 1] ELSE FALSE

WaitStep ==
    /\ wRet = "running"
    /\ LET r == waitForHealthyIter(wI, wN, NextAnswer) IN
        /\ wI' = r.i
        /\ wProbes' = IF r.probed THEN wProbes + 1 ELSE wProbes
        /\ wRet' = IF r.ret = "loop" THEN "running" ELSE r.ret
    /\ UNCHANGED <<wN, wHealth>>
    /\ UNCHANGED <<runner, prober, drainer, snap>>

NextWait == WaitStep

SpecWait == InitWait /\ [][NextWait]_vars

(* ------------------------------------------------- isHealthy on its own *)

\* largest HTTP status code tried
MaxStatus == 210

\* the status isHealthy compares resp.StatusCode with
StatusOK == 200

Statuses == 100 .. MaxStatus

\* what client.Get(url) comes back with: a response and its status code, or
\* an error (connection refused, the client's 2 s timeout) and no response
Responses ==
    [err : {"none"}, status : Statuses]
        \cup [err : {"refused", "timeout"}, status : {0}]

\* fault variant of isHealthy: every 2xx status counts as healthy
isHealthyAny2xx(resp) ==
    IF resp.err # "none"
    THEN FALSE
    ELSE resp.status >= 200 /\ resp.status < 300

\* isHealthy: false on err != nil, else resp.StatusCode == 200
isHealthy(resp) ==
    IF resp.err # "none"
    THEN FALSE
    ELSE resp.status = StatusOK

\* the runner before the runtime has called Model.Init
RunnerIdle ==
    /\ steps = initialSteps
    /\ currentStep = 0
    /\ done = FALSE
    /\ err = NoErr
    /\ quitting = FALSE
    /\ frame = 0
    /\ started = FALSE
    /\ exited = FALSE
    /\ quitPending = FALSE
    /\ tickPending = FALSE
    /\ workers = <<>>
    /\ msgs = <<>>
    /\ dispatched = <<>>
    /\ handled = <<>>
    /\ spawned = {}
    /\ logFiles = {}
    /\ logCount = 0
    /\ delivered = [i \in StepIdx |-> <<>>]
    /\ did = NoCalls(-1)
    /\ servicesUp = FALSE
    /\ processes = <<>>
    /\ killed = {}

\* no call of waitForHealthy is being followed on its own
WaitIdle ==
    /\ wN = 0
    /\ wHealth = <<>>
    /\ wI = 0
    /\ wProbes = 0
    /\ wRet = "false"

\* a call isHealthy(url) whose GET comes back with hResp
InitHealth ==
    /\ RunnerIdle
    /\ WaitIdle
    /\ DrainIdle
    /\ snap = NoSnap
    /\ hResp \in Responses
    /\ hRet = "running"

IsHealthyCall ==
    /\ hRet = "running"
    /\ hRet' = IF isHealthy(hResp) THEN "true" ELSE "false"
    /\ UNCHANGED <<hResp, runner, waiter, drainer, snap>>

NextHealth == IsHealthyCall

SpecHealth == InitHealth /\ [][NextHealth]_vars

(* ----------------------------------------------- the vLLM drain on its own *)

\* lines a pipe holds before a write to it blocks
PipeCap == 2
\* lines the vLLM process writes
MaxChildLines == 3

\* startVLLM right after cmd.Start() succeeded: both pipes are open and
\* empty, the process runs, and the goroutine's MultiReader is on stdout
InitDrain ==
    /\ RunnerIdle
    /\ WaitIdle
    /\ ProbeIdle
    /\ snap = NoSnap
    /\ outPipe = <<>>
    /\ errPipe = <<>>
    /\ vllmLog = <<>>
    /\ reader = "stdout"
    /\ childUp = TRUE
    /\ wrote = 0

\* the process writes a line to its stdout; the write blocks on a full pipe
ChildWriteStdout ==
    \E line \in Lines :
        /\ childUp
        /\ wrote < MaxChildLines
        /\ Len(outPipe) < PipeCap
        /\ outPipe' = Append(outPipe, line)
        /\ wrote' = wrote + 1
        /\ UNCHANGED <<errPipe, vllmLog, reader, childUp>>
        /\ UNCHANGED <<runner, waiter, prober, snap>>

\* the process writes a line to its stderr; the write blocks on a full pipe
ChildWriteStderr ==
    \E line \in Lines :
        /\ childUp
        /\ wrote < MaxChildLines
        /\ Len(errPipe) < PipeCap
        /\ errPipe' = Append(errPipe, line)
        /\ wrote' = wrote + 1
        /\ UNCHANGED <<outPipe, vllmLog, reader, childUp>>
        /\ UNCHANGED <<runner, waiter, prober, snap>>

\* the process ends, which closes the write ends of both pipes
ChildExit ==
    /\ childUp
    /\ childUp' = FALSE
    /\ UNCHANGED <<outPipe, errPipe, vllmLog, reader, wrote>>
    /\ UNCHANGED <<runner, waiter, prober, snap>>

\* one pass of the goroutine's loop: scanner.Scan() reads from
\* io.MultiReader(stdout, stderr), which stays on stdout until stdout is at
\* end-of-file and only then goes on to stderr; the line read is written to
\* the log file.  A read of an empty pipe whose write end is open blocks.
DrainRead ==
    /\ reader \in {"stdout", "stderr"}
    /\ LET pipe == IF reader = "stdout" THEN outPipe ELSE errPipe IN
       IF pipe # <<>>
       THEN /\ vllmLog' = Append(vllmLog, Head(pipe))
            /\ outPipe' = IF reader = "stdout" THEN Tail(outPipe) ELSE outPipe
            /\ errPipe' = IF reader = "stderr" THEN Tail(errPipe) ELSE errPipe
            /\ reader' = reader
       ELSE /\ ~childUp
            /\ reader' = IF reader = "stdout" THEN "stderr" ELSE "eof"
            /\ UNCHANGED <<outPipe, errPipe, vllmLog>>
    /\ UNCHANGED <<childUp, wrote>>
    /\ UNCHANGED <<runner, waiter, prober, snap>>

NextDrain ==
    \/ ChildWriteStdout
    \/ ChildWriteStderr
    \/ ChildExit
    \/ DrainRead

\* the goroutine is scheduled whenever it can read
SpecDrain == InitDrain /\ [][NextDrain]_vars /\ WF_vars(DrainRead)

(* ------------------------------------------------------------ properties *)

TypeOK ==
    /\ currentStep \in 0 .. NSteps
    /\ \A i \in StepIdx : steps[i].Status \in {"pending", "running", "done", "error"}

StatusOf(i) == steps[i].Status
Terminal(i) == StatusOf(i) \in {"done", "error"}

\* the indices of the step actions in flight: running, or returned and the
\* message not yet handled
InFlight ==
    {workers[k].index : k \in 1 .. Len(workers)} \cup
    {msgs[k].index : k \in 1 .. Len(msgs)}

\* C1: in every reachable state at most one step has status running.
AtMostOneRunning ==
    Cardinality({i \in StepIdx : StatusOf(i) = "running"}) <= 1

AtMostOneRunningWitness ==
    /\ StatusOf(3) = "running"
    /\ StatusOf(2) = "done"
    /\ logCount > 0
    /\ frame = 1
    /\ quitting

\* C2: at most one step action is in flight at any instant; runStep is
\* dispatched with 0, 1, 2, ... in this order, and while the action of a
\* step is in flight every earlier step has status done.
StrictSequence ==
    /\ Len(workers) + Len(msgs) <= 1
    /\ \A k \in 1 .. Len(dispatched) : dispatched[k] = k - 1
    /\ \A i \in InFlight : \A j \in 0 .. (i - 1) : StatusOf(j) = "done"

StrictSequenceWitness ==
    /\ Len(workers) = 1
    /\ workers[1].index = 3
    /\ workers[1].pc = "pull"
    /\ dispatched = <<0, 1, 2, 3>>

\* C3: whenever a step action is in flight, that step has status running
\* and currentStep is its index.
InFlightIsRunning ==
    \A i \in InFlight : StatusOf(i) = "running" /\ currentStep = i

\* C4, in a state: a handled failure has set err to its cause and the failed
\* step to error; nothing is in flight, the later steps are pending and done
\* is not set; at most one failure is handled in a run.
FatalState ==
    /\ \A k \in 1 .. Len(handled) :
          handled[k].kind = "error" =>
              /\ err = handled[k].err
              /\ err # NoErr
              /\ StatusOf(handled[k].index) = "error"
              /\ k = Len(handled)
              /\ \A j \in StepIdx : j > handled[k].index => StatusOf(j) = "pending"
    /\ err # NoErr =>
          /\ handled # <<>>
          /\ handled[Len(handled)].kind = "error"
          /\ workers = <<>>
          /\ msgs = <<>>
          /\ ~done

\* C4, in a step: once err is set, err, the statuses, done and the record
\* of dispatches stay as they are.
FatalFrozen ==
    err # NoErr =>
        /\ err' = err
        /\ done' = done
        /\ dispatched' = dispatched
        /\ workers' = workers
        /\ \A i \in StepIdx : StatusOf(i)' = StatusOf(i)

\* C4: when a step reports failure, err is set to its cause, once and for
\* good; the failed step is error, no further action is dispatched, the
\* later steps stay pending and done is never set.
FatalErrorHalts == [](FatalState) /\ [][FatalFrozen]_vars

FatalErrorHaltsWitness ==
    /\ err = startErr(2)
    /\ StatusOf(2) = "error"
    /\ StatusOf(3) = "pending"
    /\ frame = 1
    /\ logCount > 0

\* C5: every step before currentStep is done and every step after it is
\* pending.
PrefixDone ==
    \A i \in StepIdx :
        /\ i < currentStep => StatusOf(i) = "done"
        /\ i > currentStep => StatusOf(i) = "pending"

PrefixDoneWitness ==
    /\ currentStep = 4
    /\ StatusOf(4) = "error"
    /\ 2 \in spawned

\* C6: done holds exactly when every step is done, exactly when currentStep
\* is one past the last step, and never together with an error.
DoneIffAllDone ==
    /\ done <=> (\A i \in StepIdx : StatusOf(i) = "done")
    /\ done <=> (currentStep = NSteps)
    /\ ~(done /\ err # NoErr)

DoneIffAllDoneWitness ==
    /\ done
    /\ currentStep = NSteps
    /\ spawned = {2, 5}

\* C7: every completion message Update handled carried the index that
\* currentStep had then, and the handled indices are strictly increasing
\* (so no step is reported twice).
CompletionsInOrder ==
    /\ \A k \in 1 .. Len(handled) : handled[k].index = handled[k].cur
    /\ \A k \in 1 .. (Len(handled) - 1) : handled[k].index < handled[k + 1].index

CompletionsInOrderWitness ==
    /\ Len(handled) = 4
    /\ handled[4].kind = "error"
    /\ handled[4].index = 3

\* C8: right after Update handles the completion of step i, step i+1 is
\* running and its action is dispatched, unless done or err is set.
NextStepStarted ==
    [][handled' # handled =>
          LET i == handled'[Len(handled')].index IN
          \/ done'
          \/ err' # NoErr
          \/ /\ i + 1 \in StepIdx
             /\ steps'[i + 1].Status = "running"
             /\ dispatched' = Append(dispatched, i + 1)
             /\ \E k \in 1 .. Len(workers') : workers'[k].index = i + 1]_vars

NextStepStartedWitness ==
    /\ Len(handled) = 2
    /\ handled[2].kind = "done"
    /\ StatusOf(2) = "running"
    /\ Len(workers) = 1
    /\ workers[1] = runStep(2)

\* C9: a step that is done or error keeps that status in every later state.
TerminalIsFinal ==
    [][\A i \in StepIdx : Terminal(i) => StatusOf(i)' = StatusOf(i)]_vars

TerminalIsFinalWitness ==
    /\ StatusOf(0) = "done"
    /\ StatusOf(1) = "done"
    /\ StatusOf(2) = "error"
    /\ exited

\* the first probe that answers healthy among the first wN, 0 when none does
FirstHealthy ==
    LET hs == {k \in 1 .. wN : wHealth[k]} IN
    IF hs = {} THEN 0 ELSE CHOOSE k \in hs : \A j \in hs : k <= j

\* C10: waitForHealthy(url, n) never probes more than n times; it returns
\* true after exactly k probes when the k-th probe is the first healthy one
\* (k <= n), and false after exactly n probes when none of the n is healthy.
WaitForHealthyResult ==
    /\ wProbes <= wN
    /\ wRet = "true" => FirstHealthy > 0 /\ wProbes = FirstHealthy
    /\ wRet = "false" => FirstHealthy = 0 /\ wProbes = wN
    /\ wRet = "running" => wProbes < FirstHealthy \/ (FirstHealthy = 0 /\ wProbes <= wN)

WaitForHealthyResultWitness ==
    /\ wN = 3
    /\ wHealth[1] = FALSE
    /\ wHealth[2] = TRUE
    /\ wRet = "true"
    /\ wProbes = 2

(* ---------------------------------------------- launch steps and quitting *)

\* what the step action of step i has reported: the message it returned, as
\* long as Update has not handled it, and the status Update gave the step
\* after that
Reported(i) ==
    IF \E k \in 1 .. Len(msgs) : msgs[k].index = i
    THEN LET k == CHOOSE j \in 1 .. Len(msgs) : msgs[j].index = i
         IN  msgs[k].type
    ELSE IF StatusOf(i) = "done" THEN "stepDone"
         ELSE IF StatusOf(i) = "error" THEN "stepError"
         ELSE "none"

\* the error the step action of step i has reported
ReportedErr(i) ==
    IF \E k \in 1 .. Len(msgs) : msgs[k].index = i
    THEN LET k == CHOOSE j \in 1 .. Len(msgs) : msgs[j].index = i
         IN  msgs[k].err
    ELSE err

\* the step action dispatched last has returned
Returned == workers = <<>>

\* C11: a launch step whose first health probe succeeds reports done at once:
\* it creates no log file, spawns no process and never polls; with every
\* service healthy a run spawns no service process.
HealthyShortCircuit ==
    /\ (did.index \in LaunchSteps /\ did.first = "yes") =>
          /\ did.probes = 1
          /\ did.created = "none"
          /\ did.runs = 0
          /\ ~did.waited
          /\ did.index \notin spawned
          /\ did.index \notin logFiles
          /\ Returned
          /\ Reported(did.index) = "stepDone"
    /\ servicesUp => spawned = {}

HealthyShortCircuitWitness ==
    /\ ~servicesUp
    /\ did.index = 4
    /\ did.first = "yes"
    /\ 2 \in spawned
    /\ msgs = <<stepDoneMsg(4)>>

\* C12 as stated: with all four services healthy the run reaches overallDone
\* and no child process is run at all.
AllHealthyRunsNothing ==
    servicesUp =>
        /\ err = NoErr
        /\ spawned = {}
        /\ did.tries = 0
        /\ did.runs = 0

\* C12: with all four services healthy no service process is spawned and no
\* log file is created, and the run can fail only in the uv sync, Ollama
\* install or embedding-model step, the steps that do run commands.
AllHealthySpawnsNoService ==
    servicesUp =>
        /\ spawned = {}
        /\ logFiles = {}
        /\ did.index \in LaunchSteps => did.runs = 0 /\ ~did.waited
        /\ err # NoErr => currentStep \in {0, 1, 3} /\ err.output
        /\ \A k \in 1 .. Len(msgs) :
              msgs[k].type = "stepError" => msgs[k].index \in {0, 1, 3}

AllHealthySpawnsNoServiceWitness ==
    /\ servicesUp
    /\ done
    /\ spawned = {}
    /\ \E k \in 1 .. Len(handled) : handled[k].index = 6

\* C13: when cmd.Start() of a launch step fails, the step reports a fatal
\* error that wraps the OS error and never polls for health; the run halts
\* with that step in error and the later steps pending.
SpawnFailureReported ==
    LET i == did.index IN
    (i \in LaunchSteps /\ did.runs = 1 /\ did.last = "fail") =>
        /\ Returned
        /\ ~did.waited
        /\ did.probes = 1
        /\ i \notin spawned
        /\ startErr(i).osErr
        /\ Reported(i) = "stepError"
        /\ ReportedErr(i) = startErr(i)
        /\ ~done
        /\ \A j \in StepIdx : j > i => StatusOf(j) = "pending"
        /\ msgs = <<>> => err = startErr(i) /\ StatusOf(i) = "error"

SpawnFailureReportedWitness ==
    /\ did.index = 5
    /\ did.runs = 1
    /\ did.last = "fail"
    /\ 5 \in logFiles
    /\ err = startErr(5)
    /\ StatusOf(5) = "error"
    /\ StatusOf(6) = "pending"

\* C14 as stated: the timeout error of every launch step carries the last
\* lines of the service's log file.
TimeoutCarriesLogTail ==
    \A i \in LaunchSteps :
        (did.index = i /\ did.waited /\ Returned
            /\ Reported(i) = "stepError") => ReportedErr(i).tail

\* C15: the embedding-model step queries "ollama list" at most three times
\* and reports done at the first hit; only after three misses it runs
\* "ollama pull" once, and that single pull decides done or error.
PullQueriesThenFetch ==
    did.index = 3 =>
        /\ did.tries <= ListRetries
        /\ did.runs <= 1
        /\ did.runs = 1 => did.tries = ListRetries
        /\ ~Returned =>
              /\ did.runs = 0
              /\ did.tries > 0 => did.last = "fail"
        /\ Returned =>
              /\ Reported(3) # "none"
              /\ did.runs = 0 =>
                    /\ did.tries >= 1
                    /\ did.last = "ok"
                    /\ Reported(3) = "stepDone"
              /\ did.runs = 1 => (Reported(3) = "stepDone" <=> did.last = "ok")

PullQueriesThenFetchWitness ==
    /\ did.index = 3
    /\ did.tries = ListRetries
    /\ did.runs = 1
    /\ did.last = "ok"
    /\ msgs = <<stepDoneMsg(3)>>

\* C16: each step's LogLines holds the most recent lines delivered for that
\* step, at most three of them, in delivery order.
LogKeepsLastThree ==
    \A i \in StepIdx :
        LET d == delivered[i]
            n == Len(d)
            L == steps[i].LogLines
        IN  /\ Len(L) <= LogCap
            /\ Len(L) = IF n < LogCap THEN n ELSE LogCap
            /\ L = SubSeq(d, n - Len(L) + 1, n)

LogKeepsLastThreeWitness ==
    /\ delivered[4] = <<"l1", "l2", "l1", "l1">>
    /\ steps[4].LogLines = <<"l2", "l1", "l1">>

\* C17: while the program is alive "q" and "ctrl+c" are always accepted:
\* Update answers them with quitting set and tea.Quit, whatever step is in
\* flight, and quitting is set only together with a tea.Quit.
QuitAlwaysHonoured ==
    /\ alive =>
          /\ ENABLED KeyMsg
          /\ \A key \in {"q", "ctrl+c"} :
                LET r == updateKey(TheModel, key) IN
                /\ r.m.quitting
                /\ r.cmd = QuitCmd
    /\ quitting <=> quitPending

QuitAlwaysHonouredWitness ==
    /\ quitting
    /\ quitPending
    /\ ~exited
    /\ \E k \in 1 .. Len(workers) :
          workers[k].pc = "wait" /\ workers[k].index = 4 /\ workers[k].i = 5

QuitStopsServices ==
    (exited /\ done) => spawned \subseteq killed

\* C20: once a step has failed or the run is complete nothing changes the
\* outcome and the program stays up; only a quit key makes Update return
\* tea.Quit, and the program exits only after that.
StaysUpUntilQuit ==
    [][(err # NoErr \/ done) =>
          /\ \A i \in StepIdx : steps'[i].Status = steps[i].Status
          /\ err' = err
          /\ done' = done
          /\ currentStep' = currentStep
          /\ workers' = <<>>
          /\ (quitPending' /\ ~quitPending) => KeyMsg
          /\ (exited' /\ ~exited) => (quitPending /\ quitting)]_vars

StaysUpUntilQuitWitness ==
    /\ exited
    /\ quitting
    /\ err # NoErr
    /\ StatusOf(1) = "error"
    /\ frame = 1

(* ------------------------------------------------ snapshots and writers *)

\* C21 as stated: the statuses and log lines seen through a Model value an
\* earlier Update returned stay as they were when the value was taken.
SnapshotUnchanged ==
    snap.taken =>
        \A i \in StepIdx :
            /\ SeenThrough(snap).steps[i].Status = snap.m.steps[i].Status
            /\ SeenThrough(snap).steps[i].LogLines = snap.m.steps[i].LogLines

\* the fields of the run state
runState == <<steps, currentStep, done, err>>

\* what Update makes of the run state for the message msg
Updated(msg) ==
    LET r == IF msg.type = "stepDone"
             THEN updateStepDone(TheModel, msg)
             ELSE updateStepError(TheModel, msg)
    IN  <<r.m.steps, r.m.currentStep, r.m.done, r.m.err>>

\* C22: steps, currentStep, done and err change only when Update handles a
\* message, by what Update computes for that one message; a step of a step
\* action never changes them.
OnlyUpdateWrites ==
    [][/\ runState' # runState =>
             \/ /\ msgs # <<>>
                /\ msgs' = Tail(msgs)
                /\ Len(handled') = Len(handled) + 1
                /\ runState' = Updated(Head(msgs))
             \/ /\ msgs' = msgs
                /\ logCount' = logCount + 1
                /\ \E index \in StepIdx, line \in Lines :
                      LET r == updateLog(TheModel, index, line) IN
                      runState' = <<r.m.steps, r.m.currentStep, r.m.done, r.m.err>>
       /\ (did' # did /\ dispatched' = dispatched) => runState' = runState]_vars

OnlyUpdateWritesWitness ==
    /\ Len(handled) = 4
    /\ StatusOf(4) = "running"
    /\ 4 \in spawned
    /\ \E k \in 1 .. Len(workers) : workers[k].pc = "wait" /\ workers[k].i = 7

\* C23: isHealthy returns true exactly when the GET came back without an
\* error and with status 200; for a transport error, a timeout and any other
\* status it returns false, and it always returns a boolean.
IsHealthyIff200 ==
    hRet # "running" =>
        /\ hRet \in {"true", "false"}
        /\ hRet = "true" <=> (hResp.err = "none" /\ hResp.status = 200)

IsHealthyIff200Witness ==
    /\ hResp.err = "none"
    /\ hResp.status = 204
    /\ hRet = "false"

\* C24: the icons View draws for the steps decode back to the steps'
\* statuses, and on the frame shown each of the four statuses has an icon
\* that decodes back to it, so no two statuses share a glyph.
ViewRoundTrip ==
    /\ \A i \in StepIdx : Decode(View(TheModel)[i]) = steps[i].Status
    /\ \A s \in {"pending", "running", "done", "error"} :
          Decode(Icon(s, frame)) = s

ViewRoundTripWitness ==
    /\ StatusOf(0) = "done"
    /\ StatusOf(1) = "done"
    /\ StatusOf(2) = "running"
    /\ StatusOf(3) = "pending"
    /\ frame = 1
    /\ View(TheModel)[2].glyph = "dot2"

\* C25 as stated: while the vLLM process keeps running, every line it has
\* written to stdout or stderr is eventually written to the log file.
DrainLogsEveryLine ==
    \A n \in 1 .. MaxChildLines :
        (wrote >= n) ~> (Len(vllmLog) >= n \/ ~childUp)

(* ------------------------------------------------------------ termination *)

\* the outcomes step i has reported so far, handled or not
Outcomes(i) ==
    Cardinality({k \in 1 .. Len(msgs) : msgs[k].index = i})
        + Cardinality({k \in 1 .. Len(handled) : handled[k].index = i})

\* the work of a step action is bounded: at most one probe of its own and
\* timeoutSeconds probes in waitForHealthy, four runs of uv sync, three of
\* ollama list, one of any other command; and a step reports at most once
BoundedWork ==
    /\ did.probes <= 1
    /\ did.runs <= 1
    /\ did.tries <= NPythonVersions
    /\ \A k \in 1 .. Len(workers) :
          /\ workers[k].pc = "wait" => workers[k].i <= Timeout(workers[k].index)
          /\ Outcomes(workers[k].index) = 0
    /\ \A i \in StepIdx : Outcomes(i) <= 1

\* C26: with every command and probe returning and messages delivered, a
\* run that is not quit reaches done or a fatal error; each step action does
\* a bounded amount of work and reports one outcome, and no step stays
\* running for ever.
EveryRunEnds ==
    /\ []BoundedWork
    /\ <>(done \/ err # NoErr \/ quitting)
    /\ \A i \in StepIdx :
          (StatusOf(i) = "running") ~> (Terminal(i) \/ quitting)
    /\ \A i \in StepIdx :
          (i \in InFlight) ~> (Outcomes(i) = 1 \/ quitting)

EveryRunEndsWitness ==
    /\ done
    /\ ~quitting
    /\ spawned = LaunchSteps
    /\ Len(handled) = NSteps
    /\ \A i \in StepIdx : Outcomes(i) = 1

(* ------------------------------------------------- the other step actions *)

\* C27: a launch step starts its process only after os.Create of the log
\* file succeeded; when os.Create fails the step reports an error, starts no
\* process and never polls.
LogBeforeSpawn ==
    /\ spawned \subseteq logFiles
    /\ did.index \in LaunchSteps =>
          /\ did.runs >= 1 => (did.created = "ok" /\ did.index \in logFiles)
          /\ did.waited => did.created = "ok"
          /\ did.created = "fail" =>
                /\ Returned
                /\ did.runs = 0
                /\ ~did.waited
                /\ did.index \notin spawned
                /\ did.index \notin logFiles
                /\ Reported(did.index) = "stepError"
                /\ ReportedErr(did.index) =
                       Errorf("failed to create log file", TRUE, FALSE, FALSE)

LogBeforeSpawnWitness ==
    /\ did.index = 4
    /\ did.created = "fail"
    /\ spawned = {2}
    /\ logFiles = {2}
    /\ StatusOf(4) = "error"
    /\ err.text = "failed to create log file"

\* C28: uv sync is tried with 3.12, 3.13, 3.11 and then the default
\* interpreter, in that order and never more than four times; the step
\* reports done at the first success and tries no further, and reports the
\* error, with the command's error and output, only after all four failed.
UvSyncInOrder ==
    did.index = 0 =>
        /\ did.tries <= 4
        /\ did.vers = SubSeq(<<"3.12", "3.13", "3.11", "">>, 1, did.tries)
        /\ ~Returned => (did.tries > 0 => did.last = "fail")
        /\ Returned =>
              /\ did.tries >= 1
              /\ did.last = "ok" => Reported(0) = "stepDone"
              /\ did.last = "fail" =>
                    /\ did.tries = 4
                    /\ Reported(0) = "stepError"
                    /\ ReportedErr(0) = Errorf("uv sync failed", TRUE, TRUE, FALSE)

UvSyncInOrderWitness ==
    /\ did.index = 0
    /\ did.vers = <<"3.12", "3.13", "3.11">>
    /\ did.last = "ok"
    /\ msgs = <<stepDoneMsg(0)>>

\* C29: the Ollama step runs the install script exactly when exec.LookPath
\* does not find the binary, and at most once; it reports done when the
\* binary is found or the install succeeds, and an error carrying the
\* installer's output when the install fails.
OllamaInstallIffAbsent ==
    did.index = 1 =>
        /\ did.runs <= 1
        /\ did.runs = 1 => did.first = "no"
        /\ Returned =>
              /\ did.first \in {"yes", "no"}
              /\ did.first = "yes" => (did.runs = 0 /\ Reported(1) = "stepDone")
              /\ did.first = "no" =>
                    /\ did.runs = 1
                    /\ did.last = "ok" => Reported(1) = "stepDone"
                    /\ did.last = "fail" =>
                          /\ Reported(1) = "stepError"
                          /\ ReportedErr(1).output
                          /\ ReportedErr(1).text = "failed to install Ollama"

OllamaInstallIffAbsentWitness ==
    /\ did.index = 1
    /\ did.first = "no"
    /\ did.runs = 1
    /\ did.last = "fail"
    /\ msgs = <<>>
    /\ err.text = "failed to install Ollama"

\* C30: handling a spinner tick leaves steps, currentStep, done and err as
\* they are, dispatches no step action and schedules the next tick; so a
\* tick is pending in every state of the running program, while a step
\* action is blocked, after done and after a fatal error alike.
TickOnlyAnimates ==
    /\ [](alive => (tickPending /\ ENABLED TickMsg))
    /\ [][TickMsg =>
            /\ runState' = runState
            /\ quitting' = quitting
            /\ workers' = workers
            /\ dispatched' = dispatched
            /\ msgs' = msgs
            /\ quitPending' = quitPending
            /\ tickPending']_vars

TickOnlyAnimatesWitness ==
    /\ frame = 1
    /\ tickPending
    /\ StatusOf(2) = "running"
    /\ \E k \in 1 .. Len(workers) :
          workers[k].index = 2 /\ workers[k].pc = "wait" /\ workers[k].i = 3
====
